---- MODULE Spec2Model ----
\* Provisioning workflow of airflow/dags/terraform_dag.py: the six tasks of
\* terraform_dag as the Runner (Airflow) schedules them for concurrent DAG runs
\* that share one Terraform directory, and the polling loop of
\* check_instance_health against the EC2 status oracle.
EXTENDS Integers, Sequences, FiniteSets, TLC

\* ---------------------------------------------------------------- bounds
\* Number of DAG runs the Runner executes concurrently.
NumRuns == 2
\* Largest number of instances in the engine's output document.
MaxInstances == 2
MaxRequests == 2

\* ------------------------------------------------------- program constants
\* default_args['retries']
retries == 3
\* check_instance_health: max_retries, base_delay, max_delay
max_retries == 10
base_delay == 30
max_delay == 300
Range(f) == {f[i] : i \in DOMAIN f}

\* invoke_webhooks: random.randint(15, 20)
wait_min == 15
wait_max == 20

VARIABLES
    \* ---- Runner state, per DAG run
    ti,                 \* ti[r][t]: state of task instance t of run r
    try_number,         \* try_number[r]: tries started of the task run r is at
    pc,                 \* pc[r]: next command of the task run r is executing (0: none)
    xcom,               \* xcom[r]: return value of prepare_terraform_vars ("none" before)
    \* ---- Terraform directory /opt/airflow/terraform/aws (shared by all runs)
    current,            \* workspace selected in the directory (.terraform/environment)
    workspaces,         \* named workspaces that exist besides "default"
    applying,           \* applying[r]: workspace a live `terraform apply` of run r works on
    \* ---- history of the engine operations
    applies,            \* applies[r]: number of `terraform apply` invocations of run r
    \* ---- one invocation of check_instance_health
    hpc,                \* position: "idle" | "output" | "query" | "sleep" | "returned" | "raised"
    instance_ids,       \* instance ids read from `terraform output -json`
    attempt,            \* loop variable `attempt` (0-based, range(max_retries))
    idx,                \* number of instance_ids already visited in this attempt
    initializing_instances,
    all_healthy,
    delays,             \* the time.sleep(delay) calls made so far, in order
    result,             \* returned value, or the exception raised
    \* ---- history of the oracle's reports in this invocation
    reportedPending,    \* ids the oracle reported `pending` in the current attempt
    reportedOk,         \* ids reported running with both checks ok in the current attempt
    priorAllPending,    \* every earlier attempt had at least one id reported pending
    terminalAt,         \* attempt (1-based) of the first terminal/error state report, 0: none
    fatalSeen,          \* a fatal condition occurred in this invocation
    \* ---- stage handoff and variable store of the run under study
    prepared,           \* return value of prepare_terraform_vars as later tasks pull it
    store,              \* Airflow Variables: key |-> value
    \* ---- invoke_webhooks of the run under study
    webhook_config,     \* local variable webhook_config of the current try
    wait_time,          \* local variable wait_time of the current try
    posts,              \* every requests.post issued so far, over all tries, in order
    output_queries,     \* number of `terraform output -json` runs by invoke_webhooks
    wresult,            \* return value of the last try that returned
    \* ---- prepare_terraform_vars and the variables of terraform_apply
    request,            \* dag_run.conf of the run under study
    prep_error,         \* the ValueError of the last prepare try, if any
    apply_args,         \* words of $VARS as `terraform apply` receives them
    \* ---- extract_instance_details
    tf_output,          \* document printed by `terraform output -json`
    extracted,          \* outcome of the call: what it returned or that it raised
    \* ---- API facade
    registry,           \* main.py `requests`: request_id |-> entry
    dag_runs,           \* Runner side: dag_run_id |-> state of the DAG run
    posted,             \* number of POST /provision calls handled
    response,           \* the last HTTP response sent
    reported_success    \* request ids for which a Runner query answered success

runnerVars == <<ti, try_number, pc, xcom>>
engineVars == <<current, workspaces, applying, applies>>
healthVars == <<hpc, instance_ids, attempt, idx, initializing_instances, all_healthy,
                delays, result, reportedPending, reportedOk, priorAllPending,
                terminalAt, fatalSeen>>
handoffVars == <<prepared, store>>
webhookVars == <<webhook_config, wait_time, posts, output_queries, wresult>>
prepareVars == <<request, prep_error, apply_args>>
extractVars == <<tf_output, extracted>>
apiVars == <<registry, dag_runs, posted, response, reported_success>>
detailVars == <<handoffVars, webhookVars, prepareVars, extractVars, apiVars>>
vars == <<runnerVars, engineVars, healthVars, detailVars>>

Runs == 1..NumRuns

\* ------------------------------------------------------------ the DAG
TaskIds == {"prepare_terraform_vars", "terraform_init", "terraform_apply",
            "check_instance_health", "invoke_webhooks", "cleanup_workspace"}

\* prepare >> init >> apply >> check_instance_health >> invoke_webhooks >> cleanup
TaskOrder == <<"prepare_terraform_vars", "terraform_init", "terraform_apply",
               "check_instance_health", "invoke_webhooks", "cleanup_workspace">>

Position(t) == CHOOSE i \in 1..Len(TaskOrder) : TaskOrder[i] = t

\* A chain in which cleanup_workspace hangs off check_instance_health, next to
\* invoke_webhooks, instead of following it.
UpstreamFanOut(t) ==
    IF t = "cleanup_workspace" THEN {"check_instance_health"}
    ELSE IF Position(t) = 1 THEN {} ELSE {TaskOrder[Position(t) - 1]}

\* Direct upstream tasks of t in the dependency chain.
Upstream(t) == IF Position(t) = 1 THEN {} ELSE {TaskOrder[Position(t) - 1]}

\* All tasks downstream of t.
Downstream(t) == {u \in TaskIds : Position(u) > Position(t)}

TIStates == {"none", "running", "up_for_retry", "success", "failed", "upstream_failed"}

\* A task that does not wait for its upstream tasks at all.
TriggerRuleNone(r, t) == TRUE

\* Trigger rule of every task: the operators set none, so a task is runnable
\* only when all its direct upstream tasks have succeeded.
TriggerRuleMet(r, t) ==
    \A u \in Upstream(t) : ti[r][u] = "success"

\* State of a task instance after a try that ended with exit status `ok`,
\* with default_args['retries'] retries after the first try.

StateAfterTry(r, t, ok) ==
    IF ok THEN "success"
    ELSE IF try_number[r] <= retries THEN "up_for_retry"
    ELSE "failed"

\* The uuid4 generated by prepare_terraform_vars of run r: distinct per run.
Uuid4(r) == "req-" \o ToString(r)

\* WORKSPACE_NAME of the bash templates: request_id pulled from XCom.
WorkspaceName(r) == xcom[r].request_id

\* The Runner ends a try of task t of run r; a failed task fails its downstream.
\* The try counter restarts for the next task once t has succeeded.
EndTry(r, t, ok) ==
    LET s == StateAfterTry(r, t, ok) IN
    /\ ti' = [ti EXCEPT ![r] =
                [u \in TaskIds |->
                    IF u = t THEN s
                    ELSE IF s = "failed" /\ u \in Downstream(t) THEN "upstream_failed"
                    ELSE ti[r][u]]]
    /\ try_number' = [try_number EXCEPT ![r] = IF s = "success" THEN 0 ELSE @]
    /\ pc' = [pc EXCEPT ![r] = 0]

Executing(r, t, n) == ti[r][t] = "running" /\ pc[r] = n

\* State of the DAG run as the Runner reports it.
RunState(r) ==
    IF \E t \in TaskIds : ti[r][t] \in {"failed", "upstream_failed"} THEN "failed"
    ELSE IF \A t \in TaskIds : ti[r][t] = "success" THEN "success"
    ELSE "running"

\* ------------------------------------------------------------ Init
HealthIdle ==
    /\ hpc = "idle"
    /\ instance_ids = <<>>
    /\ attempt = 0
    /\ idx = 0
    /\ initializing_instances = <<>>
    /\ all_healthy = TRUE
    /\ delays = <<>>
    /\ result = [status |-> "none", error |-> "", ids |-> <<>>]
    /\ reportedPending = {}
    /\ reportedOk = {}
    /\ priorAllPending = TRUE
    /\ terminalAt = 0
    /\ fatalSeen = FALSE

PipelineInit ==
    /\ ti = [r \in Runs |-> [t \in TaskIds |-> "none"]]
    /\ try_number = [r \in Runs |-> 0]
    /\ pc = [r \in Runs |-> 0]
    /\ xcom = [r \in Runs |-> [request_id |-> "none"]]
    /\ current = "default"
    /\ workspaces = {}
    /\ applying = [r \in Runs |-> "none"]
    /\ applies = [r \in Runs |-> 0]

\* webhook_config as a dict: {} when none was given.
NoWebhook == [url |-> "", username |-> "", token |-> ""]
SomeWebhook == [url |-> "https://hooks.example/register", username |-> "ops",
                token |-> "secret"]

NotPrepared ==
    [cloud_provider |-> "", request_id |-> "none", base_dir |-> "",
     variables |-> <<>>, webhook_config |-> NoWebhook]

HandoffIdle ==
    /\ prepared = NotPrepared
    /\ store = <<>>

WebhooksIdle ==
    /\ webhook_config = NoWebhook
    /\ wait_time = 0
    /\ posts = <<>>
    /\ output_queries = 0
    /\ wresult = [status |-> "none"]

\* Python values of the request: None, str, list of str, int, dict.
PyNone == [t |-> "none", s |-> "", l |-> <<>>]
PyStr(x) == [t |-> "str", s |-> x, l |-> <<>>]
PyList(xs) == [t |-> "list", s |-> "", l |-> xs]
PyInt(x) == [t |-> "int", s |-> x, l |-> <<>>]
PyDict(xs) == [t |-> "dict", s |-> "", l |-> xs]

NoError == [kind |-> "none", names |-> <<>>]

NoRequest ==
    [keys |-> {}, cloud_provider |-> "", provider_config |-> <<>>,
     webhook_config |-> NoWebhook, request_id |-> ""]

PrepareIdle ==
    /\ request = NoRequest
    /\ prep_error = NoError
    /\ apply_args = <<>>

NoOutput == [keys |-> {}, instance_ids |-> <<>>, private_ips |-> <<>>]

ExtractIdle ==
    /\ tf_output = NoOutput
    /\ extracted = [status |-> "none", details |-> <<>>]

NoResponse ==
    [op |-> "none", code |-> 0, request_id |-> "", status |-> "", query_ok |-> FALSE,
     runner_state |-> "", prior |-> ""]

ApiIdle ==
    /\ registry = <<>>
    /\ dag_runs = <<>>
    /\ posted = 0
    /\ response = NoResponse
    /\ reported_success = {}

DetailIdle == HandoffIdle /\ WebhooksIdle /\ PrepareIdle /\ ExtractIdle /\ ApiIdle

Init == PipelineInit /\ HealthIdle /\ DetailIdle

\* ------------------------------------------------------------ Runner
\* The Runner starts (or retries) task t of run r.
StartTask(r, t) ==
    /\ ti[r][t] \in {"none", "up_for_retry"}
    /\ TriggerRuleMet(r, t)
    /\ ti' = [ti EXCEPT ![r][t] = "running"]
    /\ try_number' = [try_number EXCEPT ![r] = @ + 1]
    /\ pc' = [pc EXCEPT ![r] = 1]
    /\ UNCHANGED <<xcom, engineVars, healthVars, detailVars>>

\* prepare_terraform_vars: validation and the variable store decide `ok`; on
\* success the result (with the generated request_id) is pushed to XCom.
PrepareTerraformVars(r) ==
    /\ Executing(r, "prepare_terraform_vars", 1)
    /\ \E ok \in BOOLEAN :
        /\ xcom' = IF ok THEN [xcom EXCEPT ![r] = [request_id |-> Uuid4(r)]] ELSE xcom
        /\ EndTry(r, "prepare_terraform_vars", ok)
    /\ UNCHANGED <<engineVars, healthVars, detailVars>>

\* terraform_init, first command:
\*   terraform workspace new $WORKSPACE_NAME || terraform workspace select $WORKSPACE_NAME
TerraformInitWorkspace(r) ==
    /\ Executing(r, "terraform_init", 1)
    /\ workspaces' = workspaces \cup {WorkspaceName(r)}
    /\ current' = WorkspaceName(r)
    /\ pc' = [pc EXCEPT ![r] = 2]
    /\ UNCHANGED <<ti, try_number, xcom, applying, applies, healthVars, detailVars>>

\* terraform_init, last command: terraform init -input=false
TerraformInit(r) ==
    /\ Executing(r, "terraform_init", 2)
    /\ \E ok \in BOOLEAN : EndTry(r, "terraform_init", ok)
    /\ UNCHANGED <<xcom, engineVars, healthVars, detailVars>>

\* The workspace an engine command without a workspace argument acts on: the
\* bash templates pass none to apply and output, so it is the workspace
\* selected in the directory at the time the command starts.
TargetWorkspace(r) == current

\* terraform_apply: `terraform apply -auto-approve $VARS` starts.
TerraformApplyBegin(r) ==
    /\ Executing(r, "terraform_apply", 1)
    /\ applying' = [applying EXCEPT ![r] = TargetWorkspace(r)]
    /\ applies' = [applies EXCEPT ![r] = @ + 1]
    /\ pc' = [pc EXCEPT ![r] = 2]
    /\ UNCHANGED <<ti, try_number, xcom, current, workspaces, healthVars, detailVars>>

\* terraform_apply: the apply ends; its exit status is the task's.
TerraformApplyEnd(r) ==
    /\ Executing(r, "terraform_apply", 2)
    /\ applying' = [applying EXCEPT ![r] = "none"]
    /\ \E ok \in BOOLEAN : EndTry(r, "terraform_apply", ok)
    /\ UNCHANGED <<xcom, current, workspaces, applies, healthVars, detailVars>>

\* check_instance_health as one task try: `terraform output -json` in base_dir,
\* then the polling loop (modelled step by step further down) decides the outcome.
CheckInstanceHealthTask(r) ==
    /\ Executing(r, "check_instance_health", 1)
    /\ \E ok \in BOOLEAN : EndTry(r, "check_instance_health", ok)
    /\ UNCHANGED <<xcom, engineVars, healthVars, detailVars>>

\* invoke_webhooks as one task try: without webhook configuration it returns
\* "skipped"; with it, `terraform output -json` and the two posts decide.
InvokeWebhooksTask(r) ==
    /\ Executing(r, "invoke_webhooks", 1)
    /\ \E configured \in BOOLEAN, ok \in BOOLEAN :
        EndTry(r, "invoke_webhooks", (~configured) \/ ok)
    /\ UNCHANGED <<xcom, engineVars, healthVars, detailVars>>

\* cleanup_workspace, first command: terraform workspace select default
CleanupSelectDefault(r) ==
    /\ Executing(r, "cleanup_workspace", 1)
    /\ current' = "default"
    /\ pc' = [pc EXCEPT ![r] = 2]
    /\ UNCHANGED <<ti, try_number, xcom, workspaces, applying, applies, healthVars, detailVars>>

\* cleanup_workspace, last command: terraform workspace delete -force $WORKSPACE_NAME
\* The engine refuses to delete the selected workspace or one that does not exist.
CleanupDeleteWorkspace(r) ==
    /\ Executing(r, "cleanup_workspace", 2)
    /\ \E engineOk \in BOOLEAN :
        LET ok == engineOk /\ WorkspaceName(r) \in workspaces /\ current # WorkspaceName(r) IN
        /\ workspaces' = IF ok THEN workspaces \ {WorkspaceName(r)} ELSE workspaces
        /\ EndTry(r, "cleanup_workspace", ok)
    /\ UNCHANGED <<xcom, current, applying, applies, healthVars, detailVars>>

Next ==
    \/ \E r \in Runs, t \in TaskIds : StartTask(r, t)
    \/ \E r \in Runs : PrepareTerraformVars(r)
    \/ \E r \in Runs : TerraformInitWorkspace(r)
    \/ \E r \in Runs : TerraformInit(r)
    \/ \E r \in Runs : TerraformApplyBegin(r)
    \/ \E r \in Runs : TerraformApplyEnd(r)
    \/ \E r \in Runs : CheckInstanceHealthTask(r)
    \/ \E r \in Runs : InvokeWebhooksTask(r)
    \/ \E r \in Runs : CleanupSelectDefault(r)
    \/ \E r \in Runs : CleanupDeleteWorkspace(r)

Spec == Init /\ [][Next]_vars

\* ------------------------------------------- check_instance_health, the loop
\* Instance ids of an output document with n instances, in document order.
InstanceIdsOf(n) == [i \in 1..n |-> "i-" \o ToString(i)]

\* What client.describe_instance_status(InstanceIds=[instance_id]) can answer:
\* it raises, it returns no InstanceStatuses, or it returns one status.
InstanceStates == {"pending", "running", "stopped", "terminated"}
CheckStatuses == {"ok", "initializing", "impaired"}
OracleResponses ==
    [kind : {"raises", "empty"}, state : {""}, system_status : {""}, instance_status : {""}]
    \cup [kind : {"status"}, state : InstanceStates,
          system_status : CheckStatuses, instance_status : CheckStatuses]

\* The oracle reports the instance running with both status checks ok.
ReportsHealthy(resp) ==
    /\ resp.kind = "status"
    /\ resp.state = "running"
    /\ resp.system_status = "ok"
    /\ resp.instance_status = "ok"

ReportsPending(resp) == resp.kind = "status" /\ resp.state = "pending"

\* The oracle reports a state that is neither pending nor healthy.
ReportsTerminal(resp) ==
    resp.kind = "status" /\ ~ReportsPending(resp) /\ ~ReportsHealthy(resp)

ReportsMissing(resp) == resp.kind = "empty"

\* The body of the per-instance try block: "initializing" (the pending branch),
\* "healthy", or "error" when an exception reaches the except clause (the
\* client raising, `not found`, `is not healthy`).
CheckOne(resp) ==
    IF resp.kind = "raises" THEN "error"
    ELSE IF resp.kind = "empty" THEN "error"
    ELSE IF resp.state = "pending" THEN "initializing"
    ELSE IF resp.state = "running" /\ resp.system_status = "ok"
            /\ resp.instance_status = "ok" THEN "healthy"
    ELSE "error"

\* all_healthy after one instance: cleared by the pending branch and by the
\* except clause.
AllHealthyExceptKeeps(all, outcome) == all /\ outcome # "initializing"

AllHealthyAfter(all, outcome) == all /\ outcome = "healthy"

\* initializing_instances after one instance.
InitializingDropped(initializing, id, outcome) == initializing

InitializingAfter(initializing, id, outcome) ==
    IF outcome = "initializing" THEN Append(initializing, id) ELSE initializing

\* delay = min(base_delay * (2 ** attempt), max_delay)
Min(a, b) == IF a < b THEN a ELSE b

BackoffDelayUncapped(a) == base_delay * (2 ^ a)

BackoffDelay(a) == Min(base_delay * (2 ^ a), max_delay)

MoreAttemptsAlways(a) == TRUE

\* `if attempt < max_retries - 1`: another attempt follows this one.
MoreAttempts(a) == a < max_retries - 1

Healthy(ids) == [status |-> "healthy", error |-> "", ids |-> ids]
Raised(error, ids) == [status |-> "raised", error |-> error, ids |-> ids]

InitHealth ==
    /\ PipelineInit
    /\ hpc = "output"
    /\ instance_ids = <<>>
    /\ attempt = 0
    /\ idx = 0
    /\ initializing_instances = <<>>
    /\ all_healthy = TRUE
    /\ delays = <<>>
    /\ result = [status |-> "none", error |-> "", ids |-> <<>>]
    /\ reportedPending = {}
    /\ reportedOk = {}
    /\ priorAllPending = TRUE
    /\ terminalAt = 0
    /\ fatalSeen = FALSE
    /\ DetailIdle

pipelineVars == <<runnerVars, engineVars>>

\* `terraform output -json`: a non-zero exit or a document without the
\* instances raises; otherwise the instance ids are read and attempt 0 starts.
GetTerraformOutput ==
    /\ hpc = "output"
    /\ \/ /\ hpc' = "raised"
          /\ result' = Raised("Failed to get Terraform output", <<>>)
          /\ fatalSeen' = TRUE
          /\ UNCHANGED instance_ids
       \/ /\ \E n \in 0..MaxInstances : instance_ids' = InstanceIdsOf(n)
          /\ hpc' = "query"
          /\ UNCHANGED <<result, fatalSeen>>
    /\ UNCHANGED <<attempt, idx, initializing_instances, all_healthy, delays,
                   reportedPending, reportedOk, priorAllPending, terminalAt, pipelineVars, detailVars>>

\* One pass of `for instance_id in instance_ids` with the oracle's answer.
QueryInstance ==
    /\ hpc = "query"
    /\ idx < Len(instance_ids)
    /\ \E resp \in OracleResponses :
        LET id == instance_ids[idx + 1]
            outcome == CheckOne(resp) IN
        /\ initializing_instances' = InitializingAfter(initializing_instances, id, outcome)
        /\ all_healthy' = AllHealthyAfter(all_healthy, outcome)
        /\ reportedPending' = IF ReportsPending(resp) THEN reportedPending \cup {id}
                               ELSE reportedPending
        /\ reportedOk' = IF ReportsHealthy(resp) THEN reportedOk \cup {id} ELSE reportedOk
        /\ terminalAt' = IF terminalAt = 0 /\ ReportsTerminal(resp) THEN attempt + 1
                          ELSE terminalAt
        /\ fatalSeen' = (fatalSeen \/ ReportsTerminal(resp) \/ ReportsMissing(resp))
    /\ idx' = idx + 1
    /\ UNCHANGED <<hpc, instance_ids, attempt, delays, result, priorAllPending,
                   pipelineVars, detailVars>>

AttemptDone == hpc = "query" /\ idx = Len(instance_ids)

\* `if all_healthy: return {"status": "healthy", ...}`
ReturnHealthy ==
    /\ AttemptDone
    /\ all_healthy
    /\ hpc' = "returned"
    /\ result' = Healthy(instance_ids)
    /\ UNCHANGED <<instance_ids, attempt, idx, initializing_instances, all_healthy, delays,
                   reportedPending, reportedOk, priorAllPending, terminalAt, fatalSeen,
                   pipelineVars, detailVars>>

\* `if attempt < max_retries - 1: ... time.sleep(delay)`
BackoffSleep ==
    /\ AttemptDone
    /\ ~all_healthy
    /\ MoreAttempts(attempt)
    /\ delays' = Append(delays, BackoffDelay(attempt))
    /\ hpc' = "sleep"
    /\ UNCHANGED <<instance_ids, attempt, idx, initializing_instances, all_healthy, result,
                   reportedPending, reportedOk, priorAllPending, terminalAt, fatalSeen,
                   pipelineVars, detailVars>>

\* The else branch of the last attempt: one of the two exceptions.
RaiseAfterLastAttempt ==
    /\ AttemptDone
    /\ ~all_healthy
    /\ ~MoreAttempts(attempt)
    /\ hpc' = "raised"
    /\ result' = IF initializing_instances # <<>>
                  THEN Raised("Instances still initializing", initializing_instances)
                  ELSE Raised("Some instances are not healthy", <<>>)
    /\ UNCHANGED <<instance_ids, attempt, idx, initializing_instances, all_healthy, delays,
                   reportedPending, reportedOk, priorAllPending, terminalAt, fatalSeen,
                   pipelineVars, detailVars>>

\* time.sleep returns: the next iteration of `for attempt in range(max_retries)`
\* resets the attempt's variables; after the range, the final raise.
WakeUp ==
    /\ hpc = "sleep"
    /\ IF attempt + 1 < max_retries
       THEN /\ attempt' = attempt + 1
            /\ idx' = 0
            /\ initializing_instances' = <<>>
            /\ all_healthy' = TRUE
            /\ priorAllPending' = (priorAllPending /\ reportedPending # {})
            /\ reportedPending' = {}
            /\ reportedOk' = {}
            /\ hpc' = "query"
            /\ UNCHANGED result
       ELSE /\ hpc' = "raised"
            /\ result' = Raised("Failed to verify instance health", <<>>)
            /\ UNCHANGED <<attempt, idx, initializing_instances, all_healthy,
                           priorAllPending, reportedPending, reportedOk>>
    /\ UNCHANGED <<instance_ids, delays, terminalAt, fatalSeen, pipelineVars, detailVars>>

NextHealth ==
    \/ GetTerraformOutput
    \/ QueryInstance
    \/ ReturnHealthy
    \/ BackoffSleep
    \/ RaiseAfterLastAttempt
    \/ WakeUp

SpecHealth == InitHealth /\ [][NextHealth]_vars

\* The invocation keeps running: the engine and the oracle answer every call
\* (with a result or an exception) and time.sleep returns.
SpecHealthFair == SpecHealth /\ WF_vars(NextHealth)

\* ------------------------------------------------------- invoke_webhooks
\* The run whose stages are followed step by step.
TheRun == CHOOSE r \in Runs : \A q \in Runs : r <= q

\* Variable.set(key, value)
VariableSet(st, key, value) ==
    [k \in DOMAIN st \cup {key} |-> IF k = key THEN value ELSE st[k]]

TerraformVarsKey(id) == "terraform_vars_" \o id
WebhookVarKey(id) == "webhook_config_" \o id

\* ------------------------------------------------ prepare_terraform_vars
required_fields == <<"cloud_provider", "provider_config">>
aws_required == <<"instance_type", "ami_id", "subnet_id", "security_group_ids">>

\* Keys of `variables`, in the insertion order of the dict literal.
VarOrder ==
    <<"aws_region", "instance_name_prefix", "instance_count", "instance_type", "ami_id",
      "subnet_id", "security_group_ids", "tags">>

\* bool(v) of Python.
Truthy(v) ==
    CASE v.t = "str" -> v.s # ""
      [] v.t \in {"list", "dict"} -> v.l # <<>>
      [] v.t = "int" -> v.s # "0"
      [] OTHER -> FALSE

\* d.get(k, default)
Get(d, k, default) == IF k \in DOMAIN d THEN d[k] ELSE default

\* Lines 77-86: the aws variables with their defaults.
AwsVariables(req) ==
    LET cfg == req.provider_config IN
    [k \in Range(VarOrder) |->
        CASE k = "aws_region" -> Get(cfg, "region", PyStr("us-east-2"))
          [] k = "instance_name_prefix" -> PyStr("bare-metal")
          [] k = "instance_count" -> PyInt("1")
          [] k = "security_group_ids" -> Get(cfg, k, PyList(<<>>))
          [] k = "tags" -> Get(cfg, k, PyDict(<<>>))
          [] OTHER -> Get(cfg, k, PyNone)]

\* Line 56: [field for field in required_fields if field not in request_data]
MissingFields(req) == SelectSeq(required_fields, LAMBDA f : f \notin req.keys)

\* Line 90: [field for field in aws_required if not variables.get(field)]
MissingAwsAbsentOnly(req) ==
    SelectSeq(aws_required, LAMBDA f : f \notin DOMAIN req.provider_config)

MissingAws(req) == SelectSeq(aws_required, LAMBDA f : ~Truthy(AwsVariables(req)[f]))

\* Line 76: the providers with a branch of their own.
ImplementedEnum(cp) == cp \in {"aws", "oci"}

Implemented(cp) == cp = "aws"

PrepareErrorNever(req) == NoError

\* The ValueError prepare_terraform_vars raises for the request, if any.
PrepareError(req) ==
    IF MissingFields(req) # <<>>
    THEN [kind |-> "missing_fields", names |-> MissingFields(req)]
    ELSE IF Implemented(req.cloud_provider)
         THEN IF MissingAws(req) # <<>>
              THEN [kind |-> "missing_aws", names |-> MissingAws(req)]
              ELSE NoError
         ELSE [kind |-> "unsupported", names |-> <<req.cloud_provider>>]

\* Line 99: request_data.get('request_id', str(uuid.uuid4()))
RequestId(req, r) == IF "request_id" \in req.keys THEN req.request_id ELSE Uuid4(r)

\* Lines 98-123: what a successful prepare stores and returns.
PrepareResult(req, r) ==
    [cloud_provider |-> req.cloud_provider, request_id |-> RequestId(req, r),
     base_dir |-> "/opt/airflow/terraform/" \o req.cloud_provider,
     variables |-> AwsVariables(req), webhook_config |-> req.webhook_config]

PrepareStore(st, req, r) ==
    LET vars0 == VariableSet(st, TerraformVarsKey(RequestId(req, r)), AwsVariables(req))
    IN IF req.webhook_config # NoWebhook
       THEN VariableSet(vars0, WebhookVarKey(RequestId(req, r)), req.webhook_config)
       ELSE vars0

\* A complete aws request with one security group and nothing optional.
DefaultRequest ==
    [keys |-> {"cloud_provider", "provider_config"}, cloud_provider |-> "aws",
     provider_config |->
        [k \in Range(aws_required) |->
            CASE k = "instance_type" -> PyStr("m5.large")
              [] k = "ami_id" -> PyStr("ami-123")
              [] k = "subnet_id" -> PyStr("subnet-456")
              [] OTHER -> PyList(<<"sg-1">>)],
     webhook_config |-> NoWebhook, request_id |-> ""]

DefaultVariables == AwsVariables(DefaultRequest)

\* Values a provider_config field is given in a request; the field can also
\* be left out.
FieldValues(k) ==
    IF k = "security_group_ids"
    THEN {PyList(<<>>), PyList(<<"sg-1">>), PyList(<<"sg-1", "sg-2">>), PyStr(""),
          PyStr("sg-1")}
    ELSE {PyStr(""), PyStr(k \o "-1")}

ProviderConfigs ==
    UNION {{cfg \in [ks -> UNION {FieldValues(k) : k \in ks}] :
                \A k \in ks : cfg[k] \in FieldValues(k)} :
           ks \in SUBSET Range(aws_required)}

\* The top-level keys of a conf: a key is there when its value is given.
KeysOf(cp, hasCfg, wh, id) ==
    {k \in {"cloud_provider", "provider_config", "webhook_config", "request_id"} :
        CASE k = "cloud_provider" -> cp # ""
          [] k = "provider_config" -> hasCfg
          [] k = "webhook_config" -> wh # NoWebhook
          [] OTHER -> id # ""}

\* DAG runs are triggered with any conf: the API sends cloud_provider and
\* provider_config only, a direct trigger can send less or more.
Requests ==
    {req \in {[keys |-> KeysOf(cp, hasCfg, wh, id), cloud_provider |-> cp,
               provider_config |-> cfg, webhook_config |-> wh, request_id |-> id] :
                 cp \in {"", "aws", "oci", "gcp"}, hasCfg \in BOOLEAN,
                 cfg \in ProviderConfigs, wh \in {NoWebhook, SomeWebhook},
                 id \in {"", "ext-1"}} :
        "provider_config" \in req.keys \/ DOMAIN req.provider_config = {}}

InitPrepare ==
    /\ PipelineInit
    /\ HealthIdle
    /\ HandoffIdle
    /\ WebhooksIdle
    /\ request \in Requests
    /\ prep_error = NoError
    /\ apply_args = <<>>
    /\ ExtractIdle
    /\ ApiIdle

\* prepare_terraform_vars, the whole callable.
PrepareCall(r) ==
    /\ Executing(r, "prepare_terraform_vars", 1)
    /\ prep_error' = PrepareError(request)
    /\ IF PrepareError(request) = NoError
       THEN /\ store' = PrepareStore(store, request, r)
            /\ prepared' = PrepareResult(request, r)
            /\ xcom' = [xcom EXCEPT ![r] = [request_id |-> RequestId(request, r)]]
            /\ EndTry(r, "prepare_terraform_vars", TRUE)
       ELSE /\ EndTry(r, "prepare_terraform_vars", FALSE)
            /\ UNCHANGED <<store, prepared, xcom>>
    /\ UNCHANGED <<engineVars, healthVars, webhookVars, extractVars, apiVars, request,
                   apply_args>>

\* json.dumps of a list of strings, as the words the shell splits it into
\* at the blanks of ", ".
JsonDumpsWords(xs) ==
    IF xs = <<>> THEN <<"[]">>
    ELSE [i \in 1..Len(xs) |->
            (IF i = 1 THEN "[" ELSE "") \o "\"" \o xs[i] \o "\""
                \o (IF i = Len(xs) THEN "]" ELSE ",")]

RECURSIVE Join(_, _)
Join(ws, sep) ==
    IF ws = <<>> THEN ""
    ELSE IF Len(ws) = 1 THEN ws[1]
    ELSE ws[1] \o sep \o Join(Tail(ws), sep)

\* Lines 436-444: the text after `k=` in $VARS, as words.
ValueWords(k, v) ==
    CASE v.t = "list" -> JsonDumpsWords(v.l)
      [] v.t = "dict" -> <<"{}">>
      [] v.t = "str" /\ k = "security_group_ids" -> <<"\"" \o v.s \o "\"">>
      [] v.t = "none" -> <<"None">>
      [] OTHER -> <<v.s>>

\* The same text as one string.
ValueText(k, v) == Join(ValueWords(k, v), " ")

\* `-var k=v` of one variable after the word splitting of the unquoted $VARS.
VarWords(k, v) ==
    <<"-var", k \o "=" \o ValueWords(k, v)[1]>> \o Tail(ValueWords(k, v))

RECURSIVE TfVarArgs(_, _)
TfVarArgs(variables, ks) ==
    IF ks = <<>> THEN <<>>
    ELSE VarWords(ks[1], variables[ks[1]]) \o TfVarArgs(variables, Tail(ks))

\* terraform_apply with its variables: `terraform apply -auto-approve $VARS`
\* starts with the words of $VARS rendered from the handoff of prepare.
TerraformApplyVars(r) ==
    /\ Executing(r, "terraform_apply", 1)
    /\ apply_args' = TfVarArgs(prepared.variables, VarOrder)
    /\ applying' = [applying EXCEPT ![r] = TargetWorkspace(r)]
    /\ applies' = [applies EXCEPT ![r] = @ + 1]
    /\ pc' = [pc EXCEPT ![r] = 2]
    /\ UNCHANGED <<ti, try_number, xcom, current, workspaces, healthVars, handoffVars,
                   webhookVars, extractVars, apiVars, request, prep_error>>

NextPrepare ==
    \/ \E t \in {"prepare_terraform_vars", "terraform_init", "terraform_apply"} :
            StartTask(TheRun, t)
    \/ PrepareCall(TheRun)
    \/ TerraformInitWorkspace(TheRun)
    \/ TerraformInit(TheRun)
    \/ TerraformApplyVars(TheRun)
    \/ TerraformApplyEnd(TheRun)

SpecPrepare == InitPrepare /\ [][NextPrepare]_vars


\* The run has succeeded up to check_instance_health: its workspace exists,
\* is selected and was applied once; prepare_terraform_vars returned with or
\* without a webhook configuration, storing the variables and the
\* configuration it was given. A configuration can also sit in the store
\* under the run's key without having come through the request.
InitWebhooks ==
    /\ ti = [r \in Runs |-> [t \in TaskIds |->
                IF r = TheRun /\ Position(t) <= Position("check_instance_health")
                THEN "success" ELSE "none"]]
    /\ try_number = [r \in Runs |-> 0]
    /\ pc = [r \in Runs |-> 0]
    /\ xcom = [r \in Runs |->
                IF r = TheRun THEN [request_id |-> Uuid4(r)] ELSE [request_id |-> "none"]]
    /\ current = Uuid4(TheRun)
    /\ workspaces = {Uuid4(TheRun)}
    /\ applying = [r \in Runs |-> "none"]
    /\ applies = [r \in Runs |-> IF r = TheRun THEN 1 ELSE 0]
    /\ HealthIdle
    /\ \E given \in {NoWebhook, SomeWebhook}, stray \in BOOLEAN :
        /\ prepared = [cloud_provider |-> "aws", request_id |-> Uuid4(TheRun),
                       base_dir |-> "/opt/airflow/terraform/aws",
                       variables |-> DefaultVariables, webhook_config |-> given]
        /\ store =
            LET vars0 == VariableSet(<<>>, TerraformVarsKey(Uuid4(TheRun)), DefaultVariables)
            IN IF given # NoWebhook \/ stray
               THEN VariableSet(vars0, WebhookVarKey(Uuid4(TheRun)), SomeWebhook)
               ELSE vars0
    /\ WebhooksIdle
    /\ PrepareIdle
    /\ ExtractIdle
    /\ ApiIdle

\* Lines 313-324: the configuration from the handoff, else from the variable
\* store; a failed or missing read is caught and leaves it empty.
LoadWebhookConfig(readOk) ==
    IF prepared.webhook_config # NoWebhook THEN prepared.webhook_config
    ELSE IF readOk /\ WebhookVarKey(prepared.request_id) \in DOMAIN store
         THEN store[WebhookVarKey(prepared.request_id)]
    ELSE NoWebhook

\* `if not webhook_config:` the calls are skipped.
SkipNever(cfg) == FALSE

SkipCalls(cfg) == cfg = NoWebhook

\* response.raise_for_status(): raises unless the response is 2xx.
RaiseForStatusIgnored(ok2xx) == FALSE

RaiseForStatus(ok2xx) == ~ok2xx

\* random.randint(15, 20), both ends included.
WaitTimesNone == {0}

WaitTimes == wait_min..wait_max

Post(payload, try, ok2xx, waited) ==
    [payload |-> payload, try |-> try, ok |-> ok2xx, waited |-> waited]

\* invoke_webhooks up to the skip decision.
WebhookLoadConfig(r) ==
    /\ Executing(r, "invoke_webhooks", 1)
    /\ \E readOk \in BOOLEAN :
        LET cfg == LoadWebhookConfig(readOk) IN
        IF SkipCalls(cfg)
        THEN /\ wresult' = [status |-> "skipped"]
             /\ EndTry(r, "invoke_webhooks", TRUE)
             /\ UNCHANGED webhook_config
        ELSE /\ webhook_config' = cfg
             /\ wresult' = [status |-> "none"]
             /\ pc' = [pc EXCEPT ![r] = 2]
             /\ UNCHANGED <<ti, try_number>>
    /\ UNCHANGED <<xcom, engineVars, healthVars, handoffVars, prepareVars, extractVars, apiVars, wait_time, posts,
                   output_queries>>

\* Lines 334-346: `terraform output -json` and the private ip of the first instance.
WebhookTerraformOutput(r) ==
    /\ Executing(r, "invoke_webhooks", 2)
    /\ output_queries' = output_queries + 1
    /\ \E ok \in BOOLEAN :
        IF ok THEN /\ pc' = [pc EXCEPT ![r] = 3]
                   /\ UNCHANGED <<ti, try_number>>
        ELSE EndTry(r, "invoke_webhooks", FALSE)
    /\ UNCHANGED <<xcom, engineVars, healthVars, handoffVars, prepareVars, extractVars, apiVars, webhook_config, wait_time,
                   posts, wresult>>

\* Lines 348-362: the first webhook (host registration payload).
WebhookPostFirst(r) ==
    /\ Executing(r, "invoke_webhooks", 3)
    /\ \E ok2xx \in BOOLEAN :
        /\ posts' = Append(posts, Post("host", try_number[r], ok2xx, 0))
        /\ IF RaiseForStatus(ok2xx)
           THEN EndTry(r, "invoke_webhooks", FALSE)
           ELSE /\ pc' = [pc EXCEPT ![r] = 4]
                /\ UNCHANGED <<ti, try_number>>
    /\ UNCHANGED <<xcom, engineVars, healthVars, handoffVars, prepareVars, extractVars, apiVars, webhook_config, wait_time,
                   output_queries, wresult>>

\* Lines 364-367: wait_time = random.randint(15, 20); time.sleep(wait_time)
WebhookWait(r) ==
    /\ Executing(r, "invoke_webhooks", 4)
    /\ \E w \in WaitTimes : wait_time' = w
    /\ pc' = [pc EXCEPT ![r] = 5]
    /\ UNCHANGED <<ti, try_number, xcom, engineVars, healthVars, handoffVars, prepareVars, extractVars, apiVars,
                   webhook_config, posts, output_queries, wresult>>

\* Lines 369-389: the second webhook (asset registration payload with the token).
WebhookPostSecond(r) ==
    /\ Executing(r, "invoke_webhooks", 5)
    /\ \E ok2xx \in BOOLEAN :
        /\ posts' = Append(posts, Post("asset", try_number[r], ok2xx, wait_time))
        /\ IF RaiseForStatus(ok2xx)
           THEN /\ EndTry(r, "invoke_webhooks", FALSE)
                /\ UNCHANGED wresult
           ELSE /\ EndTry(r, "invoke_webhooks", TRUE)
                /\ wresult' = [status |-> "success"]
    /\ UNCHANGED <<xcom, engineVars, healthVars, handoffVars, prepareVars, extractVars, apiVars, webhook_config, wait_time,
                   output_queries>>

NextWebhooks ==
    \/ \E t \in {"invoke_webhooks", "cleanup_workspace"} : StartTask(TheRun, t)
    \/ WebhookLoadConfig(TheRun)
    \/ WebhookTerraformOutput(TheRun)
    \/ WebhookPostFirst(TheRun)
    \/ WebhookWait(TheRun)
    \/ WebhookPostSecond(TheRun)
    \/ CleanupSelectDefault(TheRun)
    \/ CleanupDeleteWorkspace(TheRun)

SpecWebhooks == InitWebhooks /\ [][NextWebhooks]_vars

\* ------------------------------------------------ extract_instance_details
InstanceDetailsKey(id) == "instance_details_" \o id

\* Sequences over S of length at most n.
SeqUpTo(S, n) == UNION {[1..k -> S] : k \in 0..n}

\* Documents `terraform output -json` can print: each of the outputs
\* instance_ids and private_ips declared or not, the ids distinct.
OutputDocuments ==
    {[keys |-> ks,
      instance_ids |-> IF "instance_ids" \in ks THEN ids ELSE <<>>,
      private_ips |-> IF "private_ips" \in ks THEN ips ELSE <<>>] :
        ks \in SUBSET {"instance_ids", "private_ips"},
        ids \in {q \in SeqUpTo(Range(InstanceIdsOf(MaxInstances)), MaxInstances) :
                    \A i, j \in DOMAIN q : i # j => q[i] # q[j]},
        ips \in SeqUpTo({"10.0.0." \o ToString(i) : i \in 1..MaxInstances}, MaxInstances)}

\* zip(a, b): pairs up to the shorter of the two.
Zip(a, b) == [i \in 1..Min(Len(a), Len(b)) |-> <<a[i], b[i]>>]

\* Lines 176-193: instance_details for the provider and the output document.
ExtractDetails(cloud_provider, out) ==
    IF cloud_provider = "aws" /\ {"instance_ids", "private_ips"} \subseteq out.keys
    THEN LET pairs == Zip(out.instance_ids, out.private_ips) IN
         [i \in DOMAIN pairs |->
            [index |-> (i - 1) + 1, instance_id |-> pairs[i][1],
             private_ip |-> pairs[i][2]]]
    ELSE <<>>

\* An aws run whose prepare succeeded; the engine prints some document.
InitExtract ==
    /\ PipelineInit
    /\ HealthIdle
    /\ WebhooksIdle
    /\ PrepareIdle
    /\ ApiIdle
    /\ prepared = PrepareResult(DefaultRequest, TheRun)
    /\ store = PrepareStore(<<>>, DefaultRequest, TheRun)
    /\ tf_output \in OutputDocuments
    /\ extracted = [status |-> "none", details |-> <<>>]

\* extract_instance_details, the whole callable: `terraform output -json`
\* exits non-zero and the call raises, or the details are built, stored
\* under instance_details_<request_id> and returned.
ExtractInstanceDetails ==
    /\ extracted.status = "none"
    /\ \E ok \in BOOLEAN :
        IF ok
        THEN LET details == ExtractDetails(prepared.cloud_provider, tf_output) IN
             /\ store' = VariableSet(store, InstanceDetailsKey(prepared.request_id), details)
             /\ extracted' = [status |-> "returned", details |-> details]
        ELSE /\ extracted' = [status |-> "raised", details |-> <<>>]
             /\ UNCHANGED store
    /\ UNCHANGED <<pipelineVars, healthVars, prepared, webhookVars, prepareVars, tf_output,
                   apiVars>>

NextExtract == ExtractInstanceDetails

SpecExtract == InitExtract /\ [][NextExtract]_vars

\* ------------------------------------------------------------ API facade
ProvisioningStatus == {"pending", "in_progress", "completed", "failed"}

\* States of a DAG run as the Runner's REST API reports them.
DagRunStates == {"queued", "running", "success", "failed"}

DagRunId(n) == "run-" \o ToString(n)

StatusSuccessOnly(state, old) == IF state = "success" THEN "completed" ELSE old

\* Lines 77-86 of main.py: the status kept for the request after a query
\* that answered `state`.
StatusAfterQuery(state, old) ==
    IF state = "success" THEN "completed"
    ELSE IF state = "failed" THEN "failed"
    ELSE IF state \in {"running", "queued"} THEN "in_progress"
    ELSE old

InitApi ==
    /\ PipelineInit
    /\ HealthIdle
    /\ DetailIdle

\* str(uuid.uuid4()) of main.py: fresh, and distinct from the uuid4 a DAG
\* run generates for itself.
ApiUuid4(n) == "api-" \o ToString(n)

\* trigger_dag: the Runner creates the run and answers 200/201; it refuses
\* (no run, trigger_dag raises); or it creates the run and the answer is lost
\* or unreadable (trigger_dag raises).
TriggerOutcomes == {"created", "refused", "lost"}

RegistryEntry(run) == [status |-> "in_progress", dag_run_id |-> run]

RegistryAfterPostAlways(reg, id, run, outcome) == VariableSet(reg, id, RegistryEntry(run))

\* Lines 45-56 of main.py: the entry is written after trigger_dag returned.
RegistryAfterPost(reg, id, run, outcome) ==
    IF outcome = "created" THEN VariableSet(reg, id, RegistryEntry(run)) ELSE reg

\* The handler of POST /provision for a body whose provider_config parsed as
\* the configuration `config` of a provider.
PostProvision(cloud_provider, config, outcome) ==
    LET request_id == ApiUuid4(posted + 1)
        run == DagRunId(posted + 1)
        resp(code, status) ==
            [NoResponse EXCEPT !.op = "provision", !.code = code,
                               !.request_id = request_id, !.status = status]
    IN
    /\ posted' = posted + 1
    /\ IF cloud_provider # config
       THEN /\ response' = resp(400, "")
            /\ UNCHANGED <<registry, dag_runs>>
       ELSE /\ dag_runs' = IF outcome = "refused" THEN dag_runs
                            ELSE VariableSet(dag_runs, run, "queued")
            /\ registry' = RegistryAfterPost(registry, request_id, run, outcome)
            /\ response' = IF outcome = "created" THEN resp(200, "in_progress")
                            ELSE resp(500, "")

\* POST /provision: 400 when the configuration is not the provider's, 500
\* when trigger_dag raises, else the request is registered as in_progress
\* with the id of the DAG run.
CreateProvisioningRequest ==
    /\ posted < MaxRequests
    /\ \E cloud_provider \in {"aws", "oci"}, config \in {"aws", "oci"},
          outcome \in TriggerOutcomes :
            PostProvision(cloud_provider, config, outcome)
    /\ UNCHANGED <<pipelineVars, healthVars, handoffVars, webhookVars, prepareVars,
                   extractVars, reported_success>>

\* The Runner moves a DAG run on: queued, running, then success or failed.
RunnerAdvance(d) ==
    /\ d \in DOMAIN dag_runs
    /\ \E next \in DagRunStates :
        /\ \/ dag_runs[d] = "queued" /\ next = "running"
           \/ dag_runs[d] = "running" /\ next \in {"success", "failed"}
        /\ dag_runs' = [dag_runs EXCEPT ![d] = next]
    /\ UNCHANGED <<pipelineVars, healthVars, handoffVars, webhookVars, prepareVars,
                   extractVars, registry, posted, response, reported_success>>

\* GET /status/{request_id}: 404 for an unknown id; else the Runner is asked
\* for the state of the DAG run, the status is updated from it, and the
\* status of the entry is returned. A query that raises only changes the
\* message.
GetProvisioningStatus(request_id) ==
    IF request_id \notin DOMAIN registry
    THEN /\ response' = [NoResponse EXCEPT !.op = "status", !.code = 404,
                                           !.request_id = request_id]
         /\ UNCHANGED <<pipelineVars, healthVars, handoffVars, webhookVars, prepareVars,
                        extractVars, registry, dag_runs, posted, reported_success>>
    ELSE \E query_ok \in BOOLEAN :
        LET old == registry[request_id].status
            state == dag_runs[registry[request_id].dag_run_id]
            status == IF query_ok THEN StatusAfterQuery(state, old) ELSE old
        IN
        /\ registry' = [registry EXCEPT ![request_id].status = status]
        /\ reported_success' =
                IF query_ok /\ state = "success"
                THEN reported_success \cup {request_id} ELSE reported_success
        /\ response' = [op |-> "status", code |-> 200, request_id |-> request_id,
                        status |-> status, query_ok |-> query_ok,
                        runner_state |-> state, prior |-> old]
        /\ UNCHANGED <<pipelineVars, healthVars, handoffVars, webhookVars, prepareVars,
                       extractVars, dag_runs, posted>>

NextApi ==
    \/ CreateProvisioningRequest
    \/ \E n \in 1..MaxRequests : RunnerAdvance(DagRunId(n))
    \/ \E n \in 1..MaxRequests : GetProvisioningStatus(ApiUuid4(n))

SpecApi == InitApi /\ [][NextApi]_vars

\* --------------------------------------------- from POST /provision to the run
\* provider_config of a body the request model accepts: every field of
\* AWSInstanceConfig (security_group_ids a list), or the fields an
\* OCIInstanceConfig shares with the aws variables.
ApiConfigs(config) ==
    IF config = "aws"
    THEN {cfg \in ProviderConfigs :
            /\ DOMAIN cfg = Range(aws_required)
            /\ cfg["security_group_ids"].t = "list"}
    ELSE {cfg \in ProviderConfigs : DOMAIN cfg = {"instance_type", "subnet_id"}}

\* Lines 25-35 of airflow.py: the conf of the DAG run holds cloud_provider,
\* provider_config, instance_name_prefix and count, and nothing else.
DagConf(cloud_provider, cfg) ==
    [keys |-> {"cloud_provider", "provider_config"}, cloud_provider |-> cloud_provider,
     provider_config |-> cfg, webhook_config |-> NoWebhook, request_id |-> ""]

InitProvision ==
    /\ PipelineInit
    /\ HealthIdle
    /\ DetailIdle

\* POST /provision whose trigger, when the Runner creates the run, starts
\* the DAG run under study with the conf trigger_dag sent.
ProvisionRun ==
    /\ posted = 0
    /\ \E cloud_provider \in {"aws", "oci"}, config \in {"aws", "oci"},
          outcome \in TriggerOutcomes :
        \E cfg \in ApiConfigs(config) :
            /\ PostProvision(cloud_provider, config, outcome)
            /\ request' = IF cloud_provider = config /\ outcome # "refused"
                          THEN DagConf(cloud_provider, cfg) ELSE request
    /\ UNCHANGED <<pipelineVars, healthVars, handoffVars, webhookVars, prep_error,
                   apply_args, extractVars, reported_success>>

\* The Runner starts tasks of the run once the run exists.
StartTriggeredTask(r, t) ==
    /\ DagRunId(r) \in DOMAIN dag_runs
    /\ StartTask(r, t)

NextProvision ==
    \/ ProvisionRun
    \/ \E t \in TaskIds : StartTriggeredTask(TheRun, t)
    \/ PrepareCall(TheRun)
    \/ TerraformInitWorkspace(TheRun)
    \/ TerraformInit(TheRun)
    \/ TerraformApplyBegin(TheRun)
    \/ TerraformApplyEnd(TheRun)
    \/ CheckInstanceHealthTask(TheRun)
    \/ InvokeWebhooksTask(TheRun)
    \/ CleanupSelectDefault(TheRun)
    \/ CleanupDeleteWorkspace(TheRun)

SpecProvision == InitProvision /\ [][NextProvision]_vars

\* ================================================================ claims

\* A task instance that has started at least one try.
Started(r, t) == ti[r][t] \in {"running", "up_for_retry", "success", "failed"}

\* ---------------------------------------------------------------- C1
\* C1 (as claimed): every `terraform apply` a run performs after its own
\* terraform_init works on the workspace named by that run's request_id, under
\* every interleaving with the other runs in the same directory.
C1_ApplyOnOwnWorkspace ==
    \A r \in Runs : applying[r] # "none" => applying[r] = WorkspaceName(r)

\* ---------------------------------------------------------------- C2
\* C2 (as claimed): once the oracle has reported a terminal or error state on
\* some attempt, check_instance_health fails on that attempt: no backoff wait
\* is taken and no further attempt is made after it, and it does not return.
C2_TerminalStateFailsImmediately ==
    terminalAt # 0 =>
        /\ attempt + 1 = terminalAt
        /\ Len(delays) < terminalAt
        /\ hpc # "returned"

\* ---------------------------------------------------------------- C3
\* C3 (as claimed): an invocation of check_instance_health in which a fatal
\* condition occurred (engine output failure, an instance reported missing or
\* in a non-pending non-healthy state) never returns a result.
C3_NoSuccessAfterFatal ==
    fatalSeen => hpc # "returned"

\* ---------------------------------------------------------------- C4
\* The attempt the loop is at has been decided: it returned, went to sleep or
\* raised after its instances were visited.
Decided ==
    \/ hpc \in {"returned", "sleep"}
    \/ hpc = "raised" /\ result.error # "Failed to get Terraform output"

\* The oracle reported every instance of the output healthy in this attempt.
AllReportedOk == reportedOk = Range(instance_ids)

\* The waits of an invocation that never succeeds, in seconds.
ExpectedDelays == <<30, 60, 120, 240, 300, 300, 300, 300, 300>>

\* C4: when some instance was reported pending on each of the attempts
\* 1..k-1 and every instance healthy on attempt k (k <= 10), the invocation
\* returns healthy at attempt k after exactly k-1 waits of 30, 60, 120, 240,
\* 300, 300, ... seconds, and takes no wait after the successful attempt.
C4_SucceedsAtAttemptK ==
    (Decided /\ priorAllPending /\ AllReportedOk) =>
        /\ hpc = "returned"
        /\ result.status = "healthy"
        /\ attempt + 1 <= max_retries
        /\ delays = SubSeq(ExpectedDelays, 1, attempt)

\* C4 witness: success at attempt 6 after five pending attempts, the fifth
\* wait being the capped one.
C4_Witness ==
    /\ hpc = "returned"
    /\ attempt = 5
    /\ priorAllPending
    /\ Len(instance_ids) = 2
    /\ delays[5] = 300

\* ---------------------------------------------------------------- C5
\* C5: when some instance was reported pending on every one of the 10
\* attempts, the invocation raises the still-initializing error listing
\* exactly the ids reported pending on the last attempt, and does not return.
C5_TimeoutListsPending ==
    (Decided /\ attempt = max_retries - 1 /\ priorAllPending /\ reportedPending # {}) =>
        /\ hpc = "raised"
        /\ result.status = "raised"
        /\ result.error = "Instances still initializing"
        /\ Range(result.ids) = reportedPending
        /\ Len(result.ids) = Cardinality(reportedPending)

\* C5 witness: the timeout is raised with one of two instances still pending.
C5_Witness ==
    /\ hpc = "raised"
    /\ attempt = max_retries - 1
    /\ priorAllPending
    /\ Len(instance_ids) = 2
    /\ reportedPending = {"i-2"}
    /\ Len(delays) = max_retries - 1

\* ---------------------------------------------------------------- C6
\* C6: at every decided attempt all instances of the output were queried, and
\* the invocation returns healthy at that attempt exactly when the oracle
\* reported every one of them running with both checks ok; so it returns at
\* the first such attempt and never from an attempt with a pending, missing,
\* unhealthy or unqueried instance.
C6_HealthyIffAllReportedOk ==
    Decided =>
        /\ idx = Len(instance_ids)
        /\ (hpc = "returned") <=> AllReportedOk
        /\ (hpc = "returned") => result = Healthy(instance_ids)

\* C6 witness: healthy is returned at a later attempt for two instances, after
\* an attempt that was not all pending.
C6_Witness ==
    /\ hpc = "returned"
    /\ attempt = 2
    /\ ~priorAllPending
    /\ reportedOk = {"i-1", "i-2"}

\* ---------------------------------------------------------------- C7
\* C7: in every run a task has started only if its predecessor in the order
\* prepare_terraform_vars, terraform_init, terraform_apply,
\* check_instance_health, invoke_webhooks, cleanup_workspace has succeeded,
\* and at most one task of the run is executing, whatever the schedule and
\* the retries.
C7_StagesSequential ==
    \A r \in Runs :
        /\ Started(r, "terraform_init") => ti[r]["prepare_terraform_vars"] = "success"
        /\ Started(r, "terraform_apply") => ti[r]["terraform_init"] = "success"
        /\ Started(r, "check_instance_health") => ti[r]["terraform_apply"] = "success"
        /\ Started(r, "invoke_webhooks") => ti[r]["check_instance_health"] = "success"
        /\ Started(r, "cleanup_workspace") => ti[r]["invoke_webhooks"] = "success"
        /\ Cardinality({t \in TaskIds : ti[r][t] = "running"}) <= 1

\* C7 witness: one run retries check_instance_health while another run is
\* executing a task of its own.
C7_Witness ==
    \E r, q \in Runs :
        /\ r # q
        /\ ti[r]["check_instance_health"] = "running"
        /\ try_number[r] = 2
        /\ ti[q]["terraform_apply"] = "running"

\* ---------------------------------------------------------------- C8
\* C8 (as claimed): in every run that completed successfully `terraform apply`
\* was invoked exactly once.
C8_ApplyInvokedOnce ==
    \A r \in Runs : RunState(r) = "success" => applies[r] = 1

\* ---------------------------------------------------------------- C9
\* C9 (as claimed): once a run has terminated, successfully or by a task
\* failing after its retries, the workspace its terraform_init created no
\* longer exists.
C9_NoOrphanedWorkspace ==
    \A r \in Runs :
        RunState(r) \in {"success", "failed"} => WorkspaceName(r) \notin workspaces

\* ---------------------------------------------------------------- C10
\* C10: cleanup_workspace has started in a run only if invoke_webhooks of
\* that run has succeeded (a skipped notification included) and
\* terraform_apply of that run has succeeded.
C10_CleanupAfterNotification ==
    \A r \in Runs :
        Started(r, "cleanup_workspace") =>
            /\ ti[r]["invoke_webhooks"] = "success"
            /\ ti[r]["terraform_apply"] = "success"

\* C10 witness: cleanup_workspace is deleting the workspace of a run.
C10_Witness ==
    \E r \in Runs : Executing(r, "cleanup_workspace", 2)

\* ---------------------------------------------------------------- C11
\* C11 (as claimed): whenever `terraform apply` of two different runs are live
\* at the same time, they work on different workspaces.
C11_LiveAppliesOnDistinctWorkspaces ==
    \A r, q \in Runs :
        (r # q /\ applying[r] # "none" /\ applying[q] # "none") =>
            applying[r] # applying[q]

\* ---------------------------------------------------------------- C12
PostsOfTry(n) == SelectSeq(posts, LAMBDA p : p.try = n)

\* C12: in invoke_webhooks, a first webhook call (host payload) answered with
\* a non-2xx response fails the stage, and no second call (asset payload) is
\* issued in that invocation: a failed host call is the last call of its try,
\* the try that issued it is not running any more and did not succeed, and
\* every asset call directly follows a successful host call of the same try.
C12_FirstFailureStopsSecond ==
    /\ \A i \in DOMAIN posts :
        (posts[i].payload = "host" /\ ~posts[i].ok) =>
            /\ \A j \in DOMAIN posts : j > i => posts[j].try # posts[i].try
            /\ (posts[i].try = try_number[TheRun] /\ ~Started(TheRun, "cleanup_workspace")) =>
                    ti[TheRun]["invoke_webhooks"] \in {"up_for_retry", "failed"}
    /\ \A j \in DOMAIN posts :
        posts[j].payload = "asset" =>
            /\ j > 1
            /\ posts[j - 1] = Post("host", posts[j].try, TRUE, 0)

C12_Witness ==
    /\ ti[TheRun]["invoke_webhooks"] = "failed"
    /\ posts # <<>>
    /\ posts[Len(posts)].payload = "host"
    /\ ~posts[Len(posts)].ok

\* ---------------------------------------------------------------- C13
ConfigAbsent ==
    /\ prepared.request_id # "none"
    /\ prepared.webhook_config = NoWebhook
    /\ WebhookVarKey(prepared.request_id) \notin DOMAIN store

\* C13: when the webhook configuration is absent from the handoff and from
\* the store key webhook_config_<request_id>, invoke_webhooks issues no
\* webhook call and no engine output query, never fails, returns status
\* skipped, and cleanup_workspace starts only after that success.
C13_AbsentConfigSkips ==
    ConfigAbsent =>
        /\ posts = <<>>
        /\ output_queries = 0
        /\ ti[TheRun]["invoke_webhooks"] \in {"none", "running", "success"}
        /\ (ti[TheRun]["invoke_webhooks"] = "success") = (wresult.status = "skipped")
        /\ Started(TheRun, "cleanup_workspace") => wresult.status = "skipped"

C13_Witness ==
    /\ ConfigAbsent
    /\ wresult.status = "skipped"
    /\ ti[TheRun]["cleanup_workspace"] = "success"

\* ---------------------------------------------------------------- C14
ConfigPresent ==
    \/ prepared.webhook_config # NoWebhook
    \/ WebhookVarKey(prepared.request_id) \in DOMAIN store

\* C14 (as claimed): in a run with webhook configuration present whose
\* notification stage ended in success, exactly two calls were issued over
\* the whole run, all Runner retries counted: the host payload, then after
\* 15 to 20 seconds the asset payload.
C14_ExactlyTwoCallsPerRun ==
    (ConfigPresent /\ ti[TheRun]["invoke_webhooks"] = "success") =>
        /\ Len(posts) = 2
        /\ posts[1].payload = "host"
        /\ posts[2].payload = "asset"
        /\ posts[2].waited \in wait_min..wait_max

\* C14 (amended): when invoke_webhooks ends in success without skipping, the
\* try that succeeded issued exactly two calls, the host payload and then,
\* after 15 to 20 seconds, the asset payload, both answered 2xx; every
\* earlier try of the stage issued the host payload at most once, again
\* after its own engine output query, and ended on a call that was refused.
C14_TwoCallsInSuccessfulTry ==
    (ti[TheRun]["invoke_webhooks"] = "success" /\ wresult.status = "success") =>
        LET n == Len(posts)
            last == posts[n].try
        IN  /\ n >= 2
            /\ PostsOfTry(last) =
                   <<Post("host", last, TRUE, 0), Post("asset", last, TRUE, posts[n].waited)>>
            /\ posts[n].waited \in wait_min..wait_max
            /\ \A m \in 1..(retries + 1) :
                m # last =>
                    /\ Len(PostsOfTry(m)) <= 2
                    /\ m > last => PostsOfTry(m) = <<>>
                    /\ PostsOfTry(m) # <<>> =>
                        /\ PostsOfTry(m)[1].payload = "host"
                        /\ ~PostsOfTry(m)[Len(PostsOfTry(m))].ok
            /\ Len(SelectSeq(posts, LAMBDA p : p.payload = "host")) <= output_queries

C14_Witness ==
    /\ ti[TheRun]["invoke_webhooks"] = "success"
    /\ wresult.status = "success"
    /\ Len(SelectSeq(posts, LAMBDA p : p.payload = "host")) > 1

\* ---------------------------------------------------------------- C15
\* A required field is absent from provider_config or given empty.
AbsentOrEmpty(req, f) ==
    \/ f \notin DOMAIN req.provider_config
    \/ req.provider_config[f] \in {PyNone, PyStr(""), PyList(<<>>)}

Tried(r, t) == ti[r][t] \in {"up_for_retry", "success", "failed"}

PassedAs(args, k, v) ==
    \E i \in 1..(Len(args) - 1) :
        /\ args[i] = "-var"
        /\ args[i + 1] = k \o "=" \o ValueText(k, v)

\* C16 (as claimed): whenever terraform_apply runs its apply, prepare has
\* succeeded in this run, and the variables passed to the engine are those
\* prepare produced, one `-var` flag each, with instance_type, ami_id,
\* subnet_id and security_group_ids present and non-empty.
C16_ApplyGetsPreparedVariables ==
    applying[TheRun] # "none" =>
        /\ ti[TheRun]["prepare_terraform_vars"] = "success"
        /\ prepared.variables = AwsVariables(request)
        /\ Len(apply_args) = 2 * Len(VarOrder)
        /\ \A k \in Range(VarOrder) : PassedAs(apply_args, k, prepared.variables[k])
        /\ \A k \in Range(aws_required) : Truthy(prepared.variables[k])

\* ---------------------------------------------------------------- C17
OtherProvider ==
    /\ "cloud_provider" \in request.keys
    /\ request.cloud_provider # "aws"

\* C17 (as claimed): for a cloud_provider value other than aws, every try
\* of prepare_terraform_vars ends with the unsupported-provider error.
C17_UnsupportedProviderError ==
    (OtherProvider /\ Tried(TheRun, "prepare_terraform_vars")) =>
        prep_error.kind = "unsupported"

\* C17 (amended): for a cloud_provider value other than aws (oci included),
\* prepare_terraform_vars never succeeds: it fails with the
\* unsupported-provider error naming the provider when the request carries
\* provider_config, and with the missing-required-fields error naming
\* provider_config when it does not; nothing is stored or handed off, and the
\* run never reaches terraform_init or terraform_apply.
C17_OtherProviderNeverProvisions ==
    OtherProvider =>
        /\ ti[TheRun]["prepare_terraform_vars"] # "success"
        /\ Tried(TheRun, "prepare_terraform_vars") =>
            prep_error =
                IF "provider_config" \in request.keys
                THEN [kind |-> "unsupported", names |-> <<request.cloud_provider>>]
                ELSE [kind |-> "missing_fields", names |-> <<"provider_config">>]
        /\ ~Started(TheRun, "terraform_init")
        /\ ~Started(TheRun, "terraform_apply")
        /\ prepared.request_id = "none"
        /\ DOMAIN store = {}
        /\ workspaces = {}
        /\ apply_args = <<>>

C17_Witness ==
    /\ request.cloud_provider = "oci"
    /\ DOMAIN request.provider_config = Range(aws_required)
    /\ ti[TheRun]["prepare_terraform_vars"] = "failed"
    /\ prep_error.kind = "unsupported"
    /\ ti[TheRun]["terraform_apply"] = "upstream_failed"

\* ---------------------------------------------------------------- C18
\* C18 (as claimed): cleanup_workspace starts only after the extraction
\* stage extract_instance_details has run as a task of the DAG, leaving the
\* instance records in the store under instance_details_<request_id>.
C18_ExtractionBeforeCleanup ==
    Started(TheRun, "cleanup_workspace") =>
        /\ "extract_instance_details" \in TaskIds
        /\ InstanceDetailsKey(prepared.request_id) \in DOMAIN store

\* ---------------------------------------------------------------- C19
\* C19 (as claimed): for an aws run and every engine output document,
\* extract_instance_details returns one record per instance id of the
\* output: as many records as ids, the i-th with index i, the i-th instance
\* id and the i-th private ip.
C19_OneRecordPerInstance ==
    (prepared.cloud_provider = "aws" /\ extracted.status = "returned") =>
        /\ Len(extracted.details) = Len(tf_output.instance_ids)
        /\ \A i \in DOMAIN extracted.details :
            /\ extracted.details[i].index = i
            /\ extracted.details[i].instance_id = tf_output.instance_ids[i]
            /\ i \in DOMAIN tf_output.private_ips
            /\ extracted.details[i].private_ip = tf_output.private_ips[i]

\* ---------------------------------------------------------------- C20
Answered == response.op = "status" /\ response.code = 200

\* The mapping of the claim.
StatusImage(state) ==
    CASE state = "success" -> "completed"
      [] state = "failed" -> "failed"
      [] state \in {"running", "queued"} -> "in_progress"

\* C20 (as claimed): the status GET /status/{request_id} reports for a
\* registered request is the image of the state the DAG run has at the
\* Runner at that moment.
C20_StatusIsImageOfRunState ==
    Answered => response.status = StatusImage(response.runner_state)

\* C20 (amended): when the Runner answers the query, the reported status is
\* the image of the run state it answered; when the query fails, the status
\* recorded before the call is reported unchanged. The reported status is
\* always one of pending, in_progress, completed, failed, it is the status
\* kept in the registry, and it is completed only if the Runner answered
\* success at some query for that request.
C20_StatusFromLastAnsweredQuery ==
    /\ Answered =>
        /\ response.query_ok => response.status = StatusImage(response.runner_state)
        /\ ~response.query_ok => response.status = response.prior
        /\ response.status \in ProvisioningStatus
        /\ response.status = "completed" => response.request_id \in reported_success
    /\ \A id \in DOMAIN registry :
        /\ registry[id].status \in ProvisioningStatus
        /\ registry[id].status = "completed" => id \in reported_success
        /\ registry[id].status = "completed" =>
                dag_runs[registry[id].dag_run_id] = "success"

C20_Witness ==
    /\ Answered
    /\ ~response.query_ok
    /\ response.runner_state = "success"
    /\ response.status = "in_progress"
    /\ \E id \in DOMAIN registry : registry[id].status = "completed"

\* ---------------------------------------------------------------- C21
HealthBounded ==
    /\ attempt + 1 <= max_retries
    /\ Len(delays) <= max_retries - 1
    /\ Len(delays) <= attempt + 1
    /\ \A i \in DOMAIN delays : delays[i] <= max_delay
    /\ hpc = "sleep" => attempt + 1 < max_retries
    /\ hpc \in {"returned", "raised"} =>
            /\ result.status \in {"healthy", "raised"}
            /\ Len(delays) <= attempt

\* C21: every invocation of check_instance_health terminates. Whatever the
\* oracle answers, it makes at most 10 attempts and at most 9 waits of at
\* most 300 seconds each, never waits after its last attempt, and eventually
\* returns healthy or raises.
C21_HealthCheckTerminates ==
    /\ []HealthBounded
    /\ <>(hpc \in {"returned", "raised"} /\ result.status \in {"healthy", "raised"})

C21_Witness ==
    /\ hpc = "raised"
    /\ attempt + 1 = max_retries
    /\ Len(delays) = max_retries - 1
    /\ result.error = "Instances still initializing"

\* ---------------------------------------------------------------- C22
\* C22 (as claimed): the request id POST /provision returned is the id
\* under which the triggered run keys its derived state: the id prepare
\* hands off, the store keys terraform_vars_<id> and webhook_config_<id>,
\* and the workspace of terraform_init and cleanup_workspace.
C22_ReturnedIdKeysDerivedState ==
    (response.op = "provision" /\ response.code = 200) =>
        /\ xcom[TheRun].request_id \in {"none", response.request_id}
        /\ prepared.request_id \in {"none", response.request_id}
        /\ DOMAIN store \subseteq {TerraformVarsKey(response.request_id),
                                   WebhookVarKey(response.request_id)}
        /\ workspaces \subseteq {response.request_id}
        /\ current \in {"default", response.request_id}

\* ---------------------------------------------------------------- C23
\* The request fails validation: cloud_provider or provider_config absent,
\* a provider other than aws, or a required aws field absent or empty.
InvalidRequest(req) ==
    \/ "cloud_provider" \notin req.keys
    \/ "provider_config" \notin req.keys
    \/ req.cloud_provider # "aws"
    \/ \E f \in Range(aws_required) : AbsentOrEmpty(req, f)

NothingRecorded ==
    /\ DOMAIN store = {}
    /\ prepared.request_id = "none"
    /\ xcom[TheRun].request_id = "none"

\* C23: an invocation of prepare_terraform_vars on a request that fails
\* validation raises and leaves the variable store, the handoff and XCom as
\* they were; no request id is ever generated or recorded for such a request.
C23_FailedPrepareWritesNothing ==
    /\ [](InvalidRequest(request) => NothingRecorded)
    /\ [][(InvalidRequest(request) /\ Executing(TheRun, "prepare_terraform_vars", 1)) =>
            /\ store' = store
            /\ prepared' = prepared
            /\ xcom' = xcom
            /\ ti'[TheRun]["prepare_terraform_vars"] \in {"up_for_retry", "failed"}]_vars

C23_Witness ==
    /\ InvalidRequest(request)
    /\ request.webhook_config = SomeWebhook
    /\ request.request_id = "ext-1"
    /\ prep_error.kind = "missing_aws"
    /\ ti[TheRun]["prepare_terraform_vars"] = "failed"
    /\ NothingRecorded

\* ---------------------------------------------------------------- C24
RegisteredRunsTriggered ==
    /\ \A id \in DOMAIN registry : registry[id].dag_run_id \in DOMAIN dag_runs
    /\ (response.op = "provision" /\ response.code # 200) =>
            response.request_id \notin DOMAIN registry
    /\ (response.op = "provision" /\ response.code = 200) =>
            /\ response.request_id \in DOMAIN registry
            /\ registry[response.request_id].dag_run_id \in DOMAIN dag_runs

\* C24: POST /provision adds an entry to the registry only when trigger_dag
\* returned: a POST answered with an error leaves the registry unchanged, and
\* after any sequence of POST /provision and GET /status calls every
\* registered request holds the dag_run_id of a run the Runner created.
C24_RegisteredOnlyWhenTriggered ==
    /\ []RegisteredRunsTriggered
    /\ [][(posted' # posted /\ response'.code # 200) => registry' = registry]_vars
    /\ [][DOMAIN registry \subseteq DOMAIN registry']_vars

C24_Witness ==
    /\ response.op = "provision"
    /\ response.code = 500
    /\ DOMAIN registry # {}
    /\ DagRunId(posted) \in DOMAIN dag_runs

TypeOK ==
    /\ \A r \in Runs : \A t \in TaskIds : ti[r][t] \in TIStates
    /\ \A r \in Runs : pc[r] \in 0..2
====
